---- MODULE Spec2Model ----
(***************************************************************************)
(* Model of scripts/gene-tracks/convert_gffutils.py: the GFF3 -> BigBed    *)
(* batch converter.  Strings are sequences of one-character strings, so    *)
(* that prefix removal, emptiness and label formatting are computed and    *)
(* not assumed.                                                            *)
(***************************************************************************)
EXTENDS Integers, Sequences, FiniteSets, TLC

VARIABLES
    lab,              \* format_label call under examination: feature, is_gene, result
    pc,               \* position of the program
    config,           \* load_config(): config['genomes']
    mode,             \* command line: "all" or "single"
    arg,              \* positional genome id of a "single" run
    idx,              \* main's loop index over config['genomes']
    failed,           \* main's failed list
    invoked,          \* genome ids convert_genome was called with, in call order
    returned,         \* return value of each finished convert_genome call, in call order
    summary,          \* what the completion summary printed: <<>> or <<failed list>>
    temp,             \* TEMP_DIR: file name -> content
    output,           \* OUTPUT_DIR: set of BigBed files
    cur,              \* genome id bound in the running convert_genome call
    gene_lines,       \* extract_features result
    transcript_lines, \* extract_features result
    cds_tried,        \* extract_features took the CDS fallback branch
    success,          \* convert_genome's local
    tool_calls,       \* bedToBigBed invocations of the convert_genome call: input, exit status
    cached,           \* the running call found gff3_path and used it as the cache
    runs              \* program executions started so far

vars == <<lab, pc, config, mode, arg, idx, failed, invoked, returned, summary, temp, output,
          cur, gene_lines, transcript_lines, cds_tried, success, tool_calls,
          cached, runs>>

----------------------------------------------------------------------------
(* Strings *)

NoneVal == <<"None">>
Dot == <<".">>
Truthy(s) == s # NoneVal /\ s # <<>>
HasColon(s) == \E i \in 1..Len(s) : s[i] = ":"

\* s.split(':')[-1]
LastSegment(s) ==
    LET cols == {i \in 1..Len(s) : s[i] = ":"}
        last == CHOOSE i \in cols : \A j \in cols : j <= i
    IN  IF cols = {} THEN s ELSE SubSeq(s, last + 1, Len(s))

\* f"{x}" of an optional string
Str(s) == IF s = NoneVal THEN <<"N", "o", "n", "e">> ELSE s

Unknown == <<"u", "n", "k", "n", "o", "w", "n">>

----------------------------------------------------------------------------
(* format_label *)

Absent == [present |-> FALSE, vals |-> <<>>]
Attr(v) == [present |-> TRUE, vals |-> <<v>>]
EmptyAttr == [present |-> TRUE, vals |-> <<>>]

Ok(v) == [raised |-> FALSE, val |-> v]
Raise == [raised |-> TRUE, val |-> <<>>]

\* for attr in [...]: if attr in feature.attributes: val = ...[attr][0];
\*     if val and val != '.': locus_id = val; break
RECURSIVE PrimaryId(_, _)
PrimaryId(f, attrs) ==
    IF attrs = <<>> THEN Ok(NoneVal)
    ELSE LET a == f.attributes[Head(attrs)] IN
         IF ~a.present THEN PrimaryId(f, Tail(attrs))
         ELSE IF a.vals = <<>> THEN Raise
         ELSE IF a.vals[1] # <<>> /\ a.vals[1] # Dot THEN Ok(a.vals[1])
         ELSE PrimaryId(f, Tail(attrs))

\* if not locus_id and 'ID' in feature.attributes: ...
FromIDAttr(f, locus) ==
    LET a == f.attributes["ID"] IN
    IF Truthy(locus) \/ ~a.present THEN Ok(locus)
    ELSE IF a.vals = <<>> THEN Raise
    ELSE IF HasColon(a.vals[1]) THEN Ok(LastSegment(a.vals[1]))
    ELSE Ok(a.vals[1])

\* if not locus_id: locus_id = feature.id.split(':')[-1] if feature.id and ':' in feature.id else feature.id
FromFeatureId(f, locus) ==
    IF Truthy(locus) THEN locus
    ELSE IF Truthy(f.id) /\ HasColon(f.id) THEN LastSegment(f.id)
    ELSE f.id

\* for attr in [...]: ... if val and val != '.' and val != locus_id: symbol = val; break
RECURSIVE Symbol(_, _, _)
Symbol(f, attrs, locus) ==
    IF attrs = <<>> THEN Ok(NoneVal)
    ELSE LET a == f.attributes[Head(attrs)] IN
         IF ~a.present THEN Symbol(f, Tail(attrs), locus)
         ELSE IF a.vals = <<>> THEN Raise
         ELSE IF a.vals[1] # <<>> /\ a.vals[1] # Dot /\ a.vals[1] # locus THEN Ok(a.vals[1])
         ELSE Symbol(f, Tail(attrs), locus)

GenePrimary == <<"gene_id", "locus_tag">>
GeneSymbols == <<"Name", "gene", "gene_name">>
TranscriptPrimary == <<"transcript_id">>
TranscriptSymbols == <<"Name">>

\* return f"{locus_id} ({symbol})" if symbol else (locus_id or "unknown")
Render(locus, symbol) ==
    IF Truthy(symbol) THEN Str(locus) \o <<" ", "(">> \o symbol \o <<")">>
    ELSE IF Truthy(locus) THEN locus
    ELSE Unknown

format_label(f, is_gene) ==
    LET p1 == PrimaryId(f, IF is_gene THEN GenePrimary ELSE TranscriptPrimary) IN
    IF p1.raised THEN Raise ELSE
    LET p2 == FromIDAttr(f, p1.val) IN
    IF p2.raised THEN Raise ELSE
    LET locus == FromFeatureId(f, p2.val)
        sym == Symbol(f, IF is_gene THEN GeneSymbols ELSE TranscriptSymbols, locus)
    IN  IF sym.raised THEN Raise ELSE Ok(Render(locus, sym.val))

----------------------------------------------------------------------------
(* Numbers as text: f"{start}" when a line is written, int(parts[1]) when read *)

DigitChars == <<"0", "1", "2", "3", "4", "5", "6", "7", "8", "9">>

RECURSIVE NatStr(_)
NatStr(n) ==
    IF n < 10 THEN <<DigitChars[n + 1]>>
    ELSE NatStr(n \div 10) \o <<DigitChars[(n % 10) + 1]>>

IntStr(n) == IF n < 0 THEN <<"-">> \o NatStr(-n) ELSE NatStr(n)

DigitVal(c) == (CHOOSE d \in 1..10 : DigitChars[d] = c) - 1

RECURSIVE ParseNat(_)
ParseNat(s) ==
    IF s = <<>> THEN 0
    ELSE ParseNat(SubSeq(s, 1, Len(s) - 1)) * 10 + DigitVal(s[Len(s)])

\* int(text)
ParseInt(s) == IF Head(s) = "-" THEN -ParseNat(Tail(s)) ELSE ParseNat(s)

----------------------------------------------------------------------------
(* BED12 lines.  A line is kept as its tab-separated fields: chrom, start,  *)
(* end, name and the text of the block columns; score, strand, thickStart,  *)
(* thickEnd and itemRgb are determined by these and never read again.       *)

Tab == "\t"

SingleBlock(start, end) ==
    IntStr(1) \o <<Tab>> \o IntStr(end - start) \o <<",">> \o <<Tab>> \o <<"0", ",">>

\* what db.bed12 returns in the block columns of a transcript with exon children
ExonBlocks == <<"2", Tab, "E">>

\* start = feature.start - 1 raises TypeError when gffutils parsed '.' to None
SimpleBed12(f, label) ==
    IF f.start = <<>> THEN Raise
    ELSE LET start == f.start[1] - 1 IN
         Ok([chrom |-> f.chrom, start |-> IntStr(start), end |-> IntStr(f.end),
             name |-> label, blocks |-> SingleBlock(start, f.end)])

gene_to_bed12(f, label) == SimpleBed12(f, label)

\* try: db.bed12(...); fields[3] = label   except Exception: the simple entry
transcript_to_bed12(f, label) ==
    IF f.exons_ok /\ f.start # <<>>
    THEN Ok([chrom |-> f.chrom, start |-> IntStr(f.start[1] - 1), end |-> IntStr(f.end),
             name |-> label, blocks |-> ExonBlocks])
    ELSE SimpleBed12(f, label)

----------------------------------------------------------------------------
(* extract_features *)

OfType(db, ftype) == SelectSeq(db, LAMBDA f : f.ftype = ftype)

\* one pass of "try: label = ...; bed12 = ...; lines.append(bed12)  except: continue"
ConvertOne(f, is_gene, with_exons) ==
    LET label == format_label(f, is_gene) IN
    IF label.raised THEN Raise
    ELSE IF with_exons THEN transcript_to_bed12(f, label.val)
    ELSE gene_to_bed12(f, label.val)

\* the loop with the per-feature handler leaving the loop instead of continuing
RECURSIVE ConvertLoopAbort(_, _, _, _)
ConvertLoopAbort(features, is_gene, with_exons, lines) ==
    IF features = <<>> THEN lines
    ELSE LET r == ConvertOne(Head(features), is_gene, with_exons) IN
         IF r.raised THEN lines
         ELSE ConvertLoopAbort(Tail(features), is_gene, with_exons, Append(lines, r.val))

RECURSIVE ConvertLoop(_, _, _, _)
ConvertLoop(features, is_gene, with_exons, lines) ==
    IF features = <<>> THEN lines
    ELSE LET r == ConvertOne(Head(features), is_gene, with_exons) IN
         ConvertLoop(Tail(features), is_gene, with_exons,
                     IF r.raised THEN lines ELSE Append(lines, r.val))

\* for ftype in [...]: features = list(db.features_of_type(ftype));
\*     if features: <convert loop>; break
RECURSIVE FirstTypeLoop(_, _, _, _)
FirstTypeLoop(db, ftypes, is_gene, with_exons) ==
    IF ftypes = <<>> THEN <<>>
    ELSE IF OfType(db, Head(ftypes)) # <<>>
         THEN ConvertLoop(OfType(db, Head(ftypes)), is_gene, with_exons, <<>>)
         ELSE FirstTypeLoop(db, Tail(ftypes), is_gene, with_exons)

GeneTypes == <<"gene">>
TranscriptTypes == <<"mRNA", "transcript">>
FallbackTypes == <<"CDS">>

\* if not transcript_lines and not gene_lines:
TryCDS(genes, transcripts) == transcripts = <<>> /\ genes = <<>>

extract_features(db) ==
    LET genes == FirstTypeLoop(db, GeneTypes, TRUE, FALSE)
        transcripts == FirstTypeLoop(db, TranscriptTypes, FALSE, TRUE)
        fallback == TryCDS(genes, transcripts)
    IN  [gene_lines |-> IF fallback
                        THEN genes \o FirstTypeLoop(db, FallbackTypes, TRUE, FALSE)
                        ELSE genes,
         transcript_lines |-> transcripts,
         cds_tried |-> fallback]

----------------------------------------------------------------------------
(* create_chrom_sizes, and the sort and filter passes of create_bigbed *)

\* f.write(f"{chrom['name']}\t{chrom['length']}\n") for each configured chromosome
create_chrom_sizes(genome_config) ==
    [i \in 1..Len(genome_config.chromosomes) |->
        [name |-> genome_config.chromosomes[i].name,
         length |-> IntStr(genome_config.chromosomes[i].length)]]

\* chrom_sizes[parts[0]] = int(parts[1]) for each line of the chrom.sizes file
RECURSIVE ReadChromSizes(_, _)
ReadChromSizes(entries, dict) ==
    IF entries = <<>> THEN dict
    ELSE ReadChromSizes(Tail(entries),
                        (Head(entries).name :> ParseInt(Head(entries).length)) @@ dict)

\* byte order of the characters that occur in a line
CharOrder == <<Tab, " ", "(", ")", ",", "-", ".",
               "0", "1", "2", "3", "4", "5", "6", "7", "8", "9", ":",
               "E", "N", "U", "_", "a", "b", "c", "e", "g", "k", "n", "o", "u", "w">>
CharRank(c) == CHOOSE i \in 1..Len(CharOrder) : CharOrder[i] = c

RECURSIVE LexLess(_, _)
LexLess(s, t) ==
    IF t = <<>> THEN FALSE
    ELSE IF s = <<>> THEN TRUE
    ELSE IF Head(s) # Head(t) THEN CharRank(Head(s)) < CharRank(Head(t))
    ELSE LexLess(Tail(s), Tail(t))

LineText(l) ==
    l.chrom \o <<Tab>> \o l.start \o <<Tab>> \o l.end \o <<Tab>> \o l.name
            \o <<Tab>> \o l.blocks

\* sort -k1,1 -k2,2n: chrom as text, start as a number, then the whole line
SortLess(a, b) ==
    IF a.chrom # b.chrom THEN LexLess(a.chrom, b.chrom)
    ELSE IF ParseInt(a.start) # ParseInt(b.start) THEN ParseInt(a.start) < ParseInt(b.start)
    ELSE LexLess(LineText(a), LineText(b))

RECURSIVE InsertLine(_, _)
InsertLine(l, sorted) ==
    IF sorted = <<>> THEN <<l>>
    ELSE IF SortLess(l, Head(sorted)) THEN <<l>> \o sorted
    ELSE <<Head(sorted)>> \o InsertLine(l, Tail(sorted))

RECURSIVE SortLines(_)
SortLines(lines) ==
    IF lines = <<>> THEN <<>> ELSE InsertLine(Head(lines), SortLines(Tail(lines)))

\* the bounds test with the end compared strictly
KeepLineStrict(l, chrom_sizes) ==
    /\ l.chrom \in DOMAIN chrom_sizes
    /\ ParseInt(l.start) >= 0
    /\ ParseInt(l.end) < chrom_sizes[l.chrom]

\* if chrom in chrom_sizes: if start >= 0 and end <= chrom_sizes[chrom]: f_out.write(line)
KeepLine(l, chrom_sizes) ==
    /\ l.chrom \in DOMAIN chrom_sizes
    /\ ParseInt(l.start) >= 0
    /\ ParseInt(l.end) <= chrom_sizes[l.chrom]

RECURSIVE FilterLoop(_, _, _)
FilterLoop(lines, chrom_sizes, out) ==
    IF lines = <<>> THEN out
    ELSE FilterLoop(Tail(lines), chrom_sizes,
                    IF KeepLine(Head(lines), chrom_sizes) THEN Append(out, Head(lines))
                    ELSE out)

----------------------------------------------------------------------------
(* Inputs: the configured genomes and the GFF3 files the servers hold *)

MaxGenomes == 2
MaxRuns == 2
MaxCoord == 3

AttrNames == {"gene_id", "locus_tag", "transcript_id", "ID", "Name", "gene", "gene_name"}
NoAttrs == [a \in AttrNames |-> Absent]

Chr1 == <<"c", "1">>
Chr2 == <<"c", "2">>
ChrU == <<"c", "U">>

Feature(ftype, chrom, start, end, attributes, id, exons_ok) ==
    [ftype |-> ftype, chrom |-> chrom, start |-> start, end |-> end,
     attributes |-> attributes, id |-> id, exons_ok |-> exons_ok]

GeneA == Feature("gene", Chr1, <<1>>, 2,
                 [NoAttrs EXCEPT !["ID"] = Attr(<<"g", ":", "a">>), !["Name"] = Attr(<<"b">>)],
                 <<"g", ":", "a">>, FALSE)
GeneFar == Feature("gene", Chr1, <<2>>, MaxCoord + 1,
                   [NoAttrs EXCEPT !["gene_id"] = Attr(<<"c">>)], <<"c">>, FALSE)
RnaA == Feature("mRNA", Chr1, <<1>>, 2,
                [NoAttrs EXCEPT !["transcript_id"] = Attr(<<"a">>)], <<"a">>, TRUE)
CdsA == Feature("CDS", Chr1, <<1>>, 1,
                [NoAttrs EXCEPT !["locus_tag"] = Attr(<<"a">>)], <<"a">>, FALSE)
ExonA == Feature("exon", Chr1, <<1>>, 1, NoAttrs, <<"e">>, FALSE)

\* the files a gff3_url may serve
RemoteFiles ==
    { <<GeneA, RnaA>>, <<GeneFar>>, <<RnaA>>, <<CdsA>>, <<ExonA>> }

ConfigChromosomes == <<[name |-> Chr1, length |-> MaxCoord]>>

GenomeIds == 1..MaxGenomes
IdSeqs ==
    {s \in UNION {[1..n -> GenomeIds] : n \in 1..MaxGenomes} :
        \A i, j \in 1..Len(s) : i < j => s[i] < s[j]}
\* odd genomes are served gzip-compressed (gff3_url ends in '.gz'), even ones plain
Configs ==
    {[i \in 1..Len(s) |->
        [id |-> s[i], gz |-> (s[i] % 2 = 1), chromosomes |-> ConfigChromosomes]] :
     s \in IdSeqs}

\* a genome id that is not configured can still be given on the command line
ArgIds == 1..(MaxGenomes + 1)

----------------------------------------------------------------------------
(* Files of TEMP_DIR *)

Gff3File(g) == <<g, "", "gff3">>
GzFile(g) == <<g, "", "gff3.gz">>
ChromSizesFile(g) == <<g, "", "chrom.sizes">>
BedFile(g, track) == <<g, track, "bed12">>
SortedFile(g, track) == <<g, track, "sorted.bed12">>
FilteredFile(g, track) == <<g, track, "filtered.bed12">>

Exists(name) == name \in DOMAIN temp
WriteFile(dir, name, data) == (name :> data) @@ dir
Unlink(dir, names) == [n \in DOMAIN dir \ names |-> dir[n]]

Gff3Content(kind, features) == [kind |-> kind, features |-> features]

\* TEMP_DIR.glob(f"{genome_id}.*")
Glob(dir, g) == {n \in DOMAIN dir : n[1] = g}

Lookup(genome_id) == {i \in 1..Len(config) : config[i].id = genome_id}
GenomeConfig(genome_id) ==
    config[CHOOSE i \in Lookup(genome_id) : \A j \in Lookup(genome_id) : i <= j]

----------------------------------------------------------------------------
(* The program *)

NoCall == [feature |-> <<>>, is_gene |-> TRUE, called |-> FALSE, out |-> Raise]

FreshRun ==
    /\ pc = "main"
    /\ idx = 0
    /\ failed = <<>>
    /\ invoked = <<>>
    /\ returned = <<>>
    /\ summary = <<>>
    /\ cur = 0
    /\ gene_lines = <<>>
    /\ transcript_lines = <<>>
    /\ cds_tried = FALSE
    /\ success = FALSE
    /\ tool_calls = <<>>
    /\ cached = FALSE

Init ==
    /\ lab = NoCall
    /\ config \in Configs
    /\ mode \in {"all", "single"}
    /\ arg \in IF mode = "single" THEN ArgIds ELSE {0}
    /\ temp = <<>>
    /\ output = {}
    /\ runs = 1
    /\ FreshRun

\* main(): args.all starts the loop over config['genomes']; a positional id is one call
Main ==
    /\ pc = "main"
    /\ idx' = 1
    /\ pc' = IF mode = "all" /\ Len(config) = 0 THEN "summary" ELSE "call"
    /\ UNCHANGED <<lab, config, mode, arg, failed, invoked, returned, summary, temp,
                   output, cur, gene_lines, transcript_lines, cds_tried, success,
                   tool_calls, cached, runs>>

Target == IF mode = "all" THEN config[idx].id ELSE arg

\* convert_genome up to the cache test: the lookup, the early return, gff3_path.exists()
Call ==
    /\ pc = "call"
    /\ invoked' = Append(invoked, Target)
    /\ IF Lookup(Target) = {}
       THEN /\ returned' = Append(returned, FALSE)
            /\ pc' = "ret"
            /\ UNCHANGED <<cur, cached>>
       ELSE /\ cur' = Target
            /\ cached' = Exists(Gff3File(Target))
            /\ pc' = IF Exists(Gff3File(Target)) THEN "extract" ELSE "download"
            /\ UNCHANGED returned
    /\ UNCHANGED <<lab, config, mode, arg, idx, failed, summary, temp, output, gene_lines,
                   transcript_lines, cds_tried, success, tool_calls, runs>>

\* urlretrieve opens the target file once the connection stands and writes it block
\* by block; a failure while reading leaves what was written so far.
Download ==
    /\ pc = "download"
    /\ \E remote \in RemoteFiles :
        \/ /\ pc' = "crashed"                       \* urlopen raises: nothing written
           /\ temp' = temp
        \/ /\ GenomeConfig(cur).gz
           /\ pc' = "crashed"                       \* the transfer breaks off
           /\ temp' = WriteFile(temp, GzFile(cur), Gff3Content("partial", <<>>))
        \/ /\ GenomeConfig(cur).gz
           /\ pc' = "crashed"                       \* gzip's read() raises after open(gff3_path, 'wb')
           /\ temp' = WriteFile(WriteFile(temp, GzFile(cur), Gff3Content("complete", <<>>)),
                                Gff3File(cur), Gff3Content("empty", <<>>))
        \/ /\ GenomeConfig(cur).gz
           /\ pc' = "extract"
           /\ temp' = Unlink(WriteFile(temp, Gff3File(cur), Gff3Content("complete", remote)),
                             {GzFile(cur)})
        \/ /\ ~GenomeConfig(cur).gz
           /\ pc' = "crashed"                       \* the transfer breaks off
           /\ \E k \in 0..(Len(remote) - 1) :
                 temp' = WriteFile(temp, Gff3File(cur),
                                   Gff3Content("partial", SubSeq(remote, 1, k)))
        \/ /\ ~GenomeConfig(cur).gz
           /\ pc' = "extract"
           /\ temp' = WriteFile(temp, Gff3File(cur), Gff3Content("complete", remote))
    /\ UNCHANGED <<lab, config, mode, arg, idx, failed, invoked, returned, summary, output,
                   cur, gene_lines, transcript_lines, cds_tried, success, tool_calls,
                   cached, runs>>

\* extract_features(gff3_path), the no-features return, create_chrom_sizes
Extract ==
    /\ pc = "extract"
    /\ LET db == temp[Gff3File(cur)].features
           r == extract_features(db)
       IN  IF db = <<>>
           THEN /\ pc' = "crashed"                  \* gffutils.create_db raises on empty input
                /\ UNCHANGED <<gene_lines, transcript_lines, cds_tried, returned, temp>>
           ELSE /\ gene_lines' = r.gene_lines
                /\ transcript_lines' = r.transcript_lines
                /\ cds_tried' = r.cds_tried
                /\ IF r.gene_lines = <<>> /\ r.transcript_lines = <<>>
                   THEN /\ returned' = Append(returned, FALSE)
                        /\ pc' = "ret"
                        /\ temp' = temp
                   ELSE /\ temp' = WriteFile(temp, ChromSizesFile(cur),
                                             create_chrom_sizes(GenomeConfig(cur)))
                        /\ pc' = "genes"
                        /\ UNCHANGED returned
    /\ UNCHANGED <<lab, config, mode, arg, idx, failed, invoked, summary, output, cur,
                   success, tool_calls, cached, runs>>

ExitCodes == {0, 1}

\* the exit status ignored, and the exit status tested the wrong way round
TrackCreatedAlways(returncode) == TRUE
TrackCreatedInverted(returncode) == returncode # 0

\* if result.returncode != 0: ... return False;  otherwise ... return True
TrackCreated(returncode) == returncode = 0

\* create_bigbed(bed_lines, output_path, chrom_sizes_path, genome_id, track_type),
\* called with a non-empty list, and the caller's "success = True"
create_bigbed(bed_lines, track, next) ==
    LET sorted == SortLines(bed_lines)
        chrom_sizes == ReadChromSizes(temp[ChromSizesFile(cur)], <<>>)
        filtered == FilterLoop(sorted, chrom_sizes, <<>>)
        written == WriteFile(temp, BedFile(cur, track), bed_lines)
    IN  \/ /\ pc' = "crashed"                       \* ensure_tools raises
           /\ UNCHANGED <<temp, output, success, tool_calls>>
        \/ /\ pc' = "crashed"                       \* sort exits non-zero: check=True raises
           /\ temp' = WriteFile(written, SortedFile(cur, track), <<>>)
           /\ UNCHANGED <<output, success, tool_calls>>
        \/ \E exit \in ExitCodes :
           /\ temp' = WriteFile(WriteFile(written, SortedFile(cur, track), sorted),
                                FilteredFile(cur, track), filtered)
           /\ tool_calls' = Append(tool_calls,
                                   [genome |-> cur, track |-> track, input |-> filtered,
                                    returncode |-> exit])
           /\ output' = IF exit = 0 THEN output \cup {<<cur, track>>} ELSE output
           /\ success' = IF TrackCreated(exit) THEN TRUE ELSE success
           /\ pc' = next

\* if gene_lines: ... create_bigbed(gene_lines, genes_output, ..., "genes")
Genes ==
    /\ pc = "genes"
    /\ IF gene_lines = <<>>
       THEN /\ pc' = "transcripts"
            /\ UNCHANGED <<temp, output, success, tool_calls>>
       ELSE create_bigbed(gene_lines, "genes", "transcripts")
    /\ UNCHANGED <<lab, config, mode, arg, idx, failed, invoked, returned, summary, cur,
                   gene_lines, transcript_lines, cds_tried, cached, runs>>

\* if transcript_lines: ... create_bigbed(transcript_lines, ..., "transcripts")
Transcripts ==
    /\ pc = "transcripts"
    /\ IF transcript_lines = <<>>
       THEN /\ pc' = "cleanup"
            /\ UNCHANGED <<temp, output, success, tool_calls>>
       ELSE create_bigbed(transcript_lines, "transcripts", "cleanup")
    /\ UNCHANGED <<lab, config, mode, arg, idx, failed, invoked, returned, summary, cur,
                   gene_lines, transcript_lines, cds_tried, cached, runs>>

\* for f in TEMP_DIR.glob(f"{genome_id}.*"): f.unlink();  return success
Cleanup ==
    /\ pc = "cleanup"
    /\ temp' = Unlink(temp, Glob(temp, cur))
    /\ returned' = Append(returned, success)
    /\ pc' = "ret"
    /\ UNCHANGED <<lab, config, mode, arg, idx, failed, invoked, summary, output, cur,
                   gene_lines, transcript_lines, cds_tried, success, tool_calls, cached,
                   runs>>

\* the result tested the wrong way round
RecordFailureInverted(result, list, genome_id) ==
    IF result THEN Append(list, genome_id) ELSE list

\* if not convert_genome(g['id'], config): failed.append(g['id'])
RecordFailure(result, list, genome_id) ==
    IF result THEN list ELSE Append(list, genome_id)

\* main(): the call's result is recorded and the loop takes its next turn
Ret ==
    /\ pc = "ret"
    /\ IF mode = "all"
       THEN /\ failed' = RecordFailure(returned[Len(returned)], failed, config[idx].id)
            /\ idx' = idx + 1
            /\ pc' = IF idx + 1 > Len(config) THEN "summary" ELSE "call"
       ELSE /\ pc' = "done"
            /\ UNCHANGED <<failed, idx>>
    /\ cur' = 0                                     \* convert_genome's frame is gone
    /\ gene_lines' = <<>>
    /\ transcript_lines' = <<>>
    /\ cds_tried' = FALSE
    /\ success' = FALSE
    /\ tool_calls' = <<>>
    /\ cached' = FALSE
    /\ UNCHANGED <<lab, config, mode, arg, invoked, returned, summary, temp, output, runs>>

\* print("Conversion complete..."); if failed: print(f"Failed: {', '.join(failed)}")
Summary ==
    /\ pc = "summary"
    /\ summary' = <<failed>>
    /\ pc' = "done"
    /\ UNCHANGED <<lab, config, mode, arg, idx, failed, invoked, returned, temp, output,
                   cur, gene_lines, transcript_lines, cds_tried, success, tool_calls,
                   cached, runs>>

\* the same command is started again; TEMP_DIR and OUTPUT_DIR are what the last run left
Rerun ==
    /\ pc \in {"done", "crashed"}
    /\ runs < MaxRuns
    /\ runs' = runs + 1
    /\ UNCHANGED <<mode, arg>>
    /\ pc' = "main"
    /\ idx' = 0
    /\ failed' = <<>>
    /\ invoked' = <<>>
    /\ returned' = <<>>
    /\ summary' = <<>>
    /\ cur' = 0
    /\ gene_lines' = <<>>
    /\ transcript_lines' = <<>>
    /\ cds_tried' = FALSE
    /\ success' = FALSE
    /\ tool_calls' = <<>>
    /\ cached' = FALSE
    /\ UNCHANGED <<lab, config, temp, output>>

Next ==
    \/ Main
    \/ Call
    \/ Download
    \/ Extract
    \/ Genes
    \/ Transcripts
    \/ Cleanup
    \/ Ret
    \/ Summary
    \/ Rerun

Spec == Init /\ [][Next]_vars

----------------------------------------------------------------------------
(* format_label on its own: every combination of attribute values *)

StrA == <<"a">>
StrB == <<"b">>
StrPrefixed == <<"g", ":", "a">>
StrPrefixOnly == <<"g", ":">>

PrimaryValues == {Absent, EmptyAttr, Attr(<<>>), Attr(Dot), Attr(StrA)}
LocusTagValues == {Absent, Attr(Dot), Attr(StrA), Attr(StrB)}
IDValues == {Absent, EmptyAttr, Attr(<<>>), Attr(Dot), Attr(StrA), Attr(StrPrefixed),
             Attr(StrPrefixOnly)}
SymbolValues == {Absent, EmptyAttr, Attr(<<>>), Attr(Dot), Attr(StrA), Attr(StrB)}
GeneNameValues == {Absent, Attr(Dot), Attr(StrA), Attr(StrB)}

\* gffutils takes the ID attribute as the primary key (with a suffix when it is
\* taken already, merge_strategy="create_unique") and numbers a feature without one
FeatureIdsFor(attributes) ==
    LET a == attributes["ID"] IN
    IF a.present /\ a.vals # <<>> /\ a.vals[1] # <<>>
    THEN {a.vals[1], a.vals[1] \o <<"_", "1">>}
    ELSE {<<"e", "_", "1">>}

GeneAttributes ==
    {[NoAttrs EXCEPT !["gene_id"] = gi, !["locus_tag"] = lt, !["ID"] = id,
                     !["Name"] = nm, !["gene"] = ge, !["gene_name"] = gn] :
        gi \in PrimaryValues, lt \in LocusTagValues, id \in IDValues,
        nm \in SymbolValues, ge \in GeneNameValues, gn \in GeneNameValues}
TranscriptAttributes ==
    {[NoAttrs EXCEPT !["transcript_id"] = ti, !["ID"] = id, !["Name"] = nm, !["gene"] = ge] :
        ti \in PrimaryValues, id \in IDValues, nm \in SymbolValues,
        ge \in {Absent, Attr(StrB)}}

Idle(position) ==
    /\ pc = position
    /\ idx = 0
    /\ failed = <<>>
    /\ returned = <<>>
    /\ summary = <<>>
    /\ output = {}
    /\ cds_tried = FALSE
    /\ success = FALSE
    /\ tool_calls = <<>>
    /\ cached = FALSE
    /\ runs = 1
    /\ mode = "single"

InitLabel ==
    /\ \E is_gene \in BOOLEAN :
       \E attributes \in IF is_gene THEN GeneAttributes ELSE TranscriptAttributes :
       \E id \in FeatureIdsFor(attributes) :
          lab = [feature |-> Feature(IF is_gene THEN "gene" ELSE "mRNA", Chr1, <<1>>, 2,
                                     attributes, id, FALSE),
                 is_gene |-> is_gene, called |-> FALSE, out |-> Raise]
    /\ Idle("label")
    /\ config = <<>>
    /\ arg = 0
    /\ invoked = <<>>
    /\ temp = <<>>
    /\ cur = 0
    /\ gene_lines = <<>>
    /\ transcript_lines = <<>>

FormatLabel ==
    /\ pc = "label"
    /\ lab' = [lab EXCEPT !.called = TRUE, !.out = format_label(lab.feature, lab.is_gene)]
    /\ pc' = "labelled"
    /\ UNCHANGED <<config, mode, arg, idx, failed, invoked, returned, summary, temp, output,
                   cur, gene_lines, transcript_lines, cds_tried, success, tool_calls,
                   cached, runs>>

SpecLabel == InitLabel /\ [][FormatLabel]_vars

----------------------------------------------------------------------------
(* extract_features on its own: every short GFF3 file over a pool of features *)

MaxFeatures == 3

GeneBadLabel == Feature("gene", Chr1, <<1>>, 2,
                        [NoAttrs EXCEPT !["gene_id"] = Attr(StrB), !["Name"] = EmptyAttr],
                        <<"e", "_", "1">>, FALSE)
GeneNoStart == Feature("gene", Chr1, <<>>, 2,
                       [NoAttrs EXCEPT !["ID"] = Attr(StrB)], StrB, FALSE)
RnaNoExons == Feature("mRNA", Chr1, <<2>>, 3,
                      [NoAttrs EXCEPT !["ID"] = Attr(StrB)], StrB, FALSE)
RnaNoStart == Feature("mRNA", Chr1, <<>>, 3,
                      [NoAttrs EXCEPT !["ID"] = Attr(StrA)], StrA, TRUE)
TranscriptA == Feature("transcript", Chr1, <<1>>, 2,
                       [NoAttrs EXCEPT !["transcript_id"] = Attr(StrB)], StrB, TRUE)
CdsBadLabel == Feature("CDS", Chr1, <<1>>, 1,
                       [NoAttrs EXCEPT !["locus_tag"] = EmptyAttr], <<"e", "_", "1">>, FALSE)

FeaturePool == {GeneA, GeneBadLabel, GeneNoStart, RnaA, RnaNoExons, RnaNoStart,
                TranscriptA, CdsA, CdsBadLabel, ExonA}

Gff3Files == UNION {[1..n -> FeaturePool] : n \in 1..MaxFeatures}

OneGenome(chromosomes) == <<[id |-> 1, gz |-> FALSE, chromosomes |-> chromosomes]>>

InitExtract ==
    /\ lab = NoCall
    /\ Idle("extract")
    /\ config = OneGenome(ConfigChromosomes)
    /\ arg = 1
    /\ invoked = <<1>>
    /\ cur = 1
    /\ \E db \in Gff3Files : temp = WriteFile(<<>>, Gff3File(1), Gff3Content("complete", db))
    /\ gene_lines = <<>>
    /\ transcript_lines = <<>>

SpecExtract == InitExtract /\ [][Extract]_vars

----------------------------------------------------------------------------
(* create_bigbed on its own: every short list of BED lines *)

MaxLines == 3

Spans == { <<-1, 1>>, <<2, MaxCoord>>, <<2, 11>>, <<10, 11>> }
LinePool ==
    {[chrom |-> c, start |-> IntStr(sp[1]), end |-> IntStr(sp[2]), name |-> StrA,
      blocks |-> SingleBlock(sp[1], sp[2])] : c \in {Chr1, Chr2, ChrU}, sp \in Spans}
BedLists == UNION {[1..n -> LinePool] : n \in 1..MaxLines}

ChromosomeLists ==
    { <<[name |-> Chr1, length |-> MaxCoord]>>,
      <<[name |-> Chr2, length |-> 11], [name |-> Chr1, length |-> 2]>> }

InitBed ==
    /\ lab = NoCall
    /\ Idle("genes")
    /\ arg = 1
    /\ invoked = <<1>>
    /\ cur = 1
    /\ \E chromosomes \in ChromosomeLists :
          /\ config = OneGenome(chromosomes)
          /\ temp = WriteFile(WriteFile(<<>>, Gff3File(1), Gff3Content("complete", <<GeneA>>)),
                              ChromSizesFile(1), create_chrom_sizes(config[1]))
    /\ gene_lines \in BedLists
    /\ transcript_lines = <<>>

SpecBed == InitBed /\ [][Genes]_vars

----------------------------------------------------------------------------
(* Properties *)

Tracks == {"genes", "transcripts"}
ZeroExitTracks == {tool_calls[i].track : i \in {j \in 1..Len(tool_calls) : tool_calls[j].returncode = 0}}
AttemptedTracks == {tool_calls[i].track : i \in 1..Len(tool_calls)}

C1_Listed(l) ==
    \E i \in 1..Len(config[1].chromosomes) :
        /\ config[1].chromosomes[i].name = l.chrom
        /\ ParseInt(l.start) >= 0
        /\ ParseInt(l.end) <= config[1].chromosomes[i].length

\* C1: once create_bigbed has run the tool, the filtered file it handed over holds
\* exactly the lines of the sorted file whose chromosome is configured and whose
\* coordinates satisfy 0 <= start and end <= the configured length, in sorted order.
C1_FilterExact ==
    \A i \in 1..Len(tool_calls) :
        LET track == tool_calls[i].track IN
        /\ Exists(FilteredFile(cur, track))
        /\ tool_calls[i].input = temp[FilteredFile(cur, track)]
        /\ temp[FilteredFile(cur, track)] = SelectSeq(temp[SortedFile(cur, track)], C1_Listed)

\* C1 witness: a run that kept a line, dropped one on an unlisted chromosome and
\* dropped one on a listed chromosome for its coordinates.
C1_Witness ==
    /\ Len(tool_calls) = 1
    /\ LET sorted == temp[SortedFile(cur, "genes")]
           names == {config[1].chromosomes[i].name : i \in 1..Len(config[1].chromosomes)}
       IN  /\ tool_calls[1].input # <<>>
           /\ \E i \in 1..Len(sorted) : sorted[i].chrom \notin names
           /\ \E i \in 1..Len(sorted) : sorted[i].chrom \in names /\ ~C1_Listed(sorted[i])

C2_Converted(selected, is_gene, with_exons) ==
    LET good == SelectSeq(selected, LAMBDA f : ~ConvertOne(f, is_gene, with_exons).raised)
    IN  [i \in 1..Len(good) |-> ConvertOne(good[i], is_gene, with_exons).val]

C2_Db == temp[Gff3File(1)].features

C2_Transcripts ==
    IF OfType(C2_Db, "mRNA") # <<>> THEN OfType(C2_Db, "mRNA") ELSE OfType(C2_Db, "transcript")

\* C2: after extract_features, the transcript lines are the conversions of exactly
\* those features of the selected transcript type that convert without raising, in
\* file order, and likewise the gene lines (of the CDS features when the fallback ran).
C2_SkipMalformed ==
    pc # "extract" =>
        /\ transcript_lines = C2_Converted(C2_Transcripts, FALSE, TRUE)
        /\ gene_lines = IF cds_tried THEN C2_Converted(OfType(C2_Db, "CDS"), TRUE, FALSE)
                        ELSE C2_Converted(OfType(C2_Db, "gene"), TRUE, FALSE)

\* C2 witness: a gene that raises precedes a gene that converts, and a line came out.
C2_Witness ==
    /\ pc # "extract"
    /\ gene_lines # <<>>
    /\ \E i, j \in 1..Len(C2_Db) :
          /\ i < j
          /\ C2_Db[i].ftype = "gene" /\ ConvertOne(C2_Db[i], TRUE, FALSE).raised
          /\ C2_Db[j].ftype = "gene" /\ ~ConvertOne(C2_Db[j], TRUE, FALSE).raised

C3_FalseIds(n) ==
    LET calls == SelectSeq([i \in 1..n |-> i], LAMBDA i : ~returned[i])
    IN  [k \in 1..Len(calls) |-> invoked[calls[k]]]

\* C3: a call that extracted no gene and no transcript line returns False and has
\* not run bedToBigBed; under --all the failed list is exactly the ids of the calls
\* that returned False, in call order, and the summary prints that list.
C3_NoFeaturesFails ==
    /\ (pc = "ret" /\ cur # 0 /\ gene_lines = <<>> /\ transcript_lines = <<>>)
          => (~returned[Len(returned)] /\ tool_calls = <<>>)
    /\ (mode = "all" /\ pc \in {"call", "ret", "summary", "done"})
          => failed = C3_FalseIds(IF pc = "ret" THEN Len(returned) - 1 ELSE Len(returned))
    /\ (mode = "all" /\ pc = "done") => summary = <<C3_FalseIds(Len(returned))>>

\* C3 witness: a first --all run ended with the summary naming a genome whose GFF3
\* is still in TEMP_DIR, which in a first run only the no-features return leaves.
C3_Witness ==
    /\ mode = "all" /\ pc = "done" /\ runs = 1 /\ Len(config) > 1
    /\ summary # <<>>
    /\ \E k \in 1..Len(summary[1]) : Exists(Gff3File(summary[1][k]))
    /\ \E i \in 1..Len(returned) : returned[i]

\* C4: when convert_genome has gone through both track steps, each track with lines
\* was handed to bedToBigBed exactly once whatever the other's exit status, and the
\* call's success flag and return value are TRUE exactly when some track exited zero.
C4_ToolFailureIsPerTrack ==
    (pc \in {"cleanup", "ret"} /\ cur # 0) =>
        /\ AttemptedTracks = {t \in Tracks : (IF t = "genes" THEN gene_lines
                                              ELSE transcript_lines) # <<>>}
        /\ Len(tool_calls) = Cardinality(AttemptedTracks)
        /\ success = (ZeroExitTracks # {})
        /\ pc = "ret" => returned[Len(returned)] = (ZeroExitTracks # {})

\* C4 witness: the genes track failed with a non-zero exit, the transcripts track was
\* still built, and the call returned True.
C4_Witness ==
    /\ pc = "ret" /\ Len(tool_calls) = 2
    /\ tool_calls[1].track = "genes" /\ tool_calls[1].returncode # 0
    /\ tool_calls[2].track = "transcripts" /\ tool_calls[2].returncode = 0
    /\ returned[Len(returned)]

\* C5 as stated: whenever convert_genome returns for a configured genome, no file
\* <genome_id>.* is left in TEMP_DIR.
C5_TempEmptyOnReturn ==
    (pc = "ret" /\ cur # 0) => Glob(temp, cur) = {}

\* C6 as stated: a call that returns True has produced both BigBed files.
C6_BothProduced ==
    (pc = "ret" /\ cur # 0 /\ returned[Len(returned)]) => ZeroExitTracks = Tracks

\* C6 amended: a call that returns True has produced at least one of the two BigBed
\* files, and every file it produced is in OUTPUT_DIR.
C6_SomeProduced ==
    (pc = "ret" /\ cur # 0 /\ returned[Len(returned)]) =>
        /\ ZeroExitTracks # {}
        /\ \A t \in ZeroExitTracks : <<cur, t>> \in output

\* C6 witness: a call returned True having produced the genes file only.
C6_Witness ==
    pc = "ret" /\ cur # 0 /\ returned[Len(returned)] /\ ZeroExitTracks = {"genes"}

\* C7 as stated: an --all run never ends without the summary, and when it ends
\* convert_genome has been called once for each configured genome, in config order.
C7_AllProcessed ==
    mode = "all" =>
        /\ pc # "crashed"
        /\ pc = "done" => /\ invoked = [i \in 1..Len(config) |-> config[i].id]
                          /\ summary = <<failed>>

C8_Usable(v) == v # <<>> /\ v # Dot
C8_Value(f, a) ==
    IF f.attributes[a].present /\ f.attributes[a].vals # <<>> THEN f.attributes[a].vals[1]
    ELSE <<>>
C8_First(candidates) ==
    LET ok == SelectSeq(candidates, LAMBDA v : v # <<>>)
    IN  IF ok = <<>> THEN <<>> ELSE ok[1]
C8_IfUsable(v) == IF C8_Usable(v) THEN v ELSE <<>>
\* '.' is read as unusable for the primary attributes only, as the code reads it
C8_Locus(f, is_gene) ==
    C8_First(IF is_gene
             THEN <<C8_IfUsable(C8_Value(f, "gene_id")), C8_IfUsable(C8_Value(f, "locus_tag")),
                    LastSegment(C8_Value(f, "ID")), f.id>>
             ELSE <<C8_IfUsable(C8_Value(f, "transcript_id")),
                    LastSegment(C8_Value(f, "ID")), f.id>>)
C8_IfSymbol(v, locus) == IF C8_Usable(v) /\ v # locus THEN v ELSE <<>>
C8_Symbol(f, is_gene) ==
    LET locus == C8_Locus(f, is_gene) IN
    C8_First(IF is_gene
             THEN <<C8_IfSymbol(C8_Value(f, "Name"), locus),
                    C8_IfSymbol(C8_Value(f, "gene"), locus),
                    C8_IfSymbol(C8_Value(f, "gene_name"), locus)>>
             ELSE <<C8_IfSymbol(C8_Value(f, "Name"), locus)>>)

\* C8 as stated: the label is "LOCUS_ID (SYMBOL)" when a symbol is available and
\* "LOCUS_ID" otherwise, LOCUS_ID being the first usable of the primary attributes,
\* the ID attribute without its prefix and feature.id, SYMBOL the first usable symbol
\* attribute that differs from it; the label is never empty and never "X (X)".
C8_LabelFormat ==
    (lab.called /\ ~lab.out.raised) =>
        LET locus == C8_Locus(lab.feature, lab.is_gene)
            symbol == C8_Symbol(lab.feature, lab.is_gene)
        IN  /\ locus # <<>>
            /\ lab.out.val = IF symbol # <<>> THEN locus \o <<" ", "(">> \o symbol \o <<")">>
                              ELSE locus
            /\ lab.out.val # <<>>
            /\ symbol # locus

\* C9 as stated: when no transcript line was found the CDS features are tried and
\* come out as gene lines; with transcripts but no genes the fallback is not taken.
C9_FallbackOnNoTranscripts ==
    pc # "extract" =>
        /\ transcript_lines = <<>> =>
              /\ cds_tried
              /\ \A i \in 1..Len(C2_Converted(OfType(C2_Db, "CDS"), TRUE, FALSE)) :
                    \E k \in 1..Len(gene_lines) :
                        gene_lines[k] = C2_Converted(OfType(C2_Db, "CDS"), TRUE, FALSE)[i]
        /\ (transcript_lines # <<>> /\ gene_lines = <<>>) => ~cds_tried

\* C10 as stated: a GFF3 found in TEMP_DIR and used as the cache is the complete
\* decompressed content of a finished download.
C10_CacheComplete ==
    (cached /\ pc = "extract") => temp[Gff3File(cur)].kind = "complete"

====
